---------------------------- MODULE Spec2Model ----------------------------
(***************************************************************************)
(* A model of BearingPost's DirectionSignGenerator (src/src/stl_generator.py): *)
(* the binary keying pins and holes, the two-piece post built by           *)
(* generate_post, the boolean unions with their retry and fallback, and    *)
(* generate_sign: its text layout, keying holes, embossing and export.     *)
(*                                                                         *)
(* Lengths are integers in hundredths of a millimetre (28.0 mm is 2800),   *)
(* so that every half, 0.45x and 1.5x of the source is exact.  Angles are  *)
(* whole degrees.  The text layout alone is computed in millionths of a    *)
(* millimetre.  A mesh is the set of the primitive solids it is made of,   *)
(* or, for a carved body, the record of the cuts it carries.               *)
(***************************************************************************)
EXTENDS Integers, Sequences, FiniteSets, TLC

VARIABLES
    call,                  \* the entry point this run exercises
    pc,                    \* position inside that entry point
    error,                 \* the exception that ended the call, or "none"
    post_height,           \* self.post_height (after the constructor's min)
    flat_height,           \* self.flat_height
    sign_vertical_spacing, \* self.sign_vertical_spacing
    manifold,              \* "manifold" in trimesh.boolean.engines_available
    bearings,              \* generate_post's input list of slots
    piece,                 \* the piece build_post is building
    i,                     \* build_post's loop index (slots already handled)
    post_mesh,             \* build_post's post_mesh: the cuts carved so far
    add_meshes,            \* build_post's add_meshes
    last_diff,             \* what the latest mesh.difference call did
    failures,              \* backend calls that have failed in this run
    built,                 \* the post pieces build_post has returned
    exported,              \* the files written by export(), in order
    slot_id,               \* keying harness: segment id of a slot
    plate_id,              \* segment_id argument (generate_sign, harness)
    sign_center,           \* keying harness: vertical centre of the slot
    key_bearing,           \* keying harness: adjusted bearing of the slot
    pins_direct,           \* result of _create_id_pins_at_bearing
    holes_direct,          \* result of _create_id_holes_for_sign
    slot_key,              \* what build_post adds to a slot for its id
    plate_key,             \* the hole cutter generate_sign builds for its id
    sign_bearing,          \* generate_sign: bearing argument
    arrowed,               \* generate_sign: arrowed argument
    sign_length,           \* generate_sign: committed plate length
    point_left,            \* generate_sign: point_left
    sign_base,             \* generate_sign: the plate blank and its holes
    sign_mesh,             \* generate_sign: the mesh handed to export
    debug,                 \* self.debug: whether self._print prints
    log,                   \* how often each warning has been printed
    union_log,             \* the calls of _union_meshes made so far
    union_failures,        \* unions whose first attempt did not succeed
    text_len,              \* generate_sign: len(text.upper())
    label_width,           \* generate_sign: main_text_width once the layout is final
    max_sign_length,       \* self.max_sign_length
    distance,              \* generate_sign: the distance text, as word lengths
    font_size,             \* generate_sign: font_size
    distance_font_size,    \* generate_sign: distance_font_size
    layout_length          \* generate_sign: sign_length while laid out

vars == << call, pc, error, post_height, flat_height, sign_vertical_spacing,
           manifold, bearings, piece, i, post_mesh, add_meshes, last_diff,
           failures, built, exported, slot_id, plate_id, sign_center, key_bearing,
           pins_direct, holes_direct, slot_key, plate_key, sign_bearing,
           arrowed, sign_length, point_left, sign_base, sign_mesh,
           debug, log, union_log, union_failures, text_len, label_width,
           max_sign_length, distance,
           font_size, distance_font_size, layout_length >>

-----------------------------------------------------------------------------
(* Bounds of the model.                                                    *)

\* Longest slot list given to generate_post.
MaxSlots == 7
\* Longest slot list in which one slot is replaced by a special entry.
MaxSpecialLen == 4
\* Most boolean-backend calls (difference, union) that fail in one run.
MaxFailures == 1
\* Most unions per run whose first attempt does not return a mesh.
MaxUnionFailures == 2
\* Longest label given to generate_sign, in characters.
MaxLabelLen == 23
\* Segment ids run from -MaxNegId to MaxId (and None).
MaxNegId == 2
MaxId == 17

-----------------------------------------------------------------------------
(* Constructor defaults, in hundredths of a millimetre.                    *)

post_radius == 1000
flat_depth == 300
sign_thickness == 300
sign_clearance == 50
index_pin_radius == 100
index_pin_length == 200
index_pin_clearance == 20
id_pin_radius == 70
id_pin_length == 150
id_pin_spacing == 300
id_pin_clearance == 20
boolean_overlap == 10
join_pin_radius == 120
join_pin_length == 400
join_pin_clearance == 20
MaxPostHeight == 18000

\* An absent value (Python's None) is the empty sequence, a present one <<v>>.
None == << >>
Some(v) == << v >>
Val(o) == o[1]

Min(a, b) == IF a <= b THEN a ELSE b
Max(a, b) == IF a >= b THEN a ELSE b

\* The outcome of a call: it raised, or it returned `mesh`.
Raised(e) == [called |-> TRUE, raised |-> e, mesh |-> {}]
Returned(m) == [called |-> TRUE, raised |-> "none", mesh |-> m]
\* The warnings the model keeps count of, and the count before any.
WarningKinds == { "no_engine", "union_retry", "union_fallback", "overlap" }
NoLog == [k \in WarningKinds |-> 0]

\* Mutant: the warning is printed whether debug is set or not.
PrintsRegardless(lg, kinds) ==
    [k \in WarningKinds |-> IF k \in kinds THEN lg[k] + 1 ELSE lg[k]]

\* self._print: print when debug is set, a no-op otherwise.
_print(lg, kinds) ==
    IF debug
    THEN [k \in WarningKinds |-> IF k \in kinds THEN lg[k] + 1 ELSE lg[k]]
    ELSE lg

NotCalled == [called |-> FALSE, raised |-> "none", mesh |-> {}]

-----------------------------------------------------------------------------
(* Keying and indexing.                                                    *)

\* segment_id & (1 << bit_index), for the ids that pass the range check.
BitSet(segment_id, bit_index) == (segment_id \div (2 ^ bit_index)) % 2 = 1

\* pin_offsets of both binary generators: -1.5, -0.5, 0.5, 1.5 spacings,
\* indexed by bit_index + 1.
pin_offsets ==
    << (-15 * id_pin_spacing) \div 10, (-5 * id_pin_spacing) \div 10,
       (5 * id_pin_spacing) \div 10, (15 * id_pin_spacing) \div 10 >>

\* A pin lying along the flat's normal at `bearing`, its axis `radial` from
\* the post axis and `z` above the piece's bottom.
Pin(kind, radius, length, bearing, z) ==
    [kind |-> kind, r |-> radius, len |-> length,
     radial |-> post_radius - flat_depth + (length \div 2) - boolean_overlap,
     bearing |-> bearing, z |-> z]

\* A hole in the back of a plate: a cylinder standing on the back face.
Hole(kind, radius, depth, x, y) ==
    [kind |-> kind, r |-> radius, depth |-> depth, x |-> x, y |-> y,
     zc |-> depth \div 2]

_create_index_pin_at_bearing(bearing, sign_height) ==
    { Pin("index", index_pin_radius, index_pin_length, bearing, sign_height) }

_create_index_hole_for_sign(length, sign_height, left) ==
    { Hole("index", index_pin_radius + index_pin_clearance,
           Min(sign_thickness, index_pin_length + index_pin_clearance),
           length \div 2, sign_height \div 2) }

\* Mutant: the range check lets id 0 through.
IdPinsAcceptZero(bearing, sign_height, segment_id) ==
    IF segment_id < 0 \/ segment_id > 15
    THEN Raised("ValueError")
    ELSE Returned({ Pin("id", id_pin_radius, id_pin_length, bearing,
                        sign_height + pin_offsets[b + 1]) :
                    b \in { c \in 0..3 : BitSet(segment_id, c) } })

_create_id_pins_at_bearing(bearing, sign_height, segment_id) ==
    IF segment_id <= 0 \/ segment_id > 15
    THEN Raised("ValueError")
    ELSE Returned({ Pin("id", id_pin_radius, id_pin_length, bearing,
                        sign_height + pin_offsets[b + 1]) :
                    b \in { c \in 0..3 : BitSet(segment_id, c) } })

\* Mutant: the holes are laid out in the opposite order along the centre line.
IdHolesReversed(length, sign_height, left, segment_id) ==
    IF segment_id <= 0 \/ segment_id > 15
    THEN Raised("ValueError")
    ELSE Returned({ Hole("id", id_pin_radius + id_pin_clearance,
                         Min(sign_thickness, id_pin_length + id_pin_clearance),
                         length \div 2,
                         (sign_height \div 2) + pin_offsets[4 - b]) :
                    b \in { c \in 0..3 : BitSet(segment_id, c) } })

_create_id_holes_for_sign(length, sign_height, left, segment_id) ==
    IF segment_id <= 0 \/ segment_id > 15
    THEN Raised("ValueError")
    ELSE Returned({ Hole("id", id_pin_radius + id_pin_clearance,
                         Min(sign_thickness, id_pin_length + id_pin_clearance),
                         length \div 2,
                         (sign_height \div 2) + pin_offsets[b + 1]) :
                    b \in { c \in 0..3 : BitSet(segment_id, c) } })

\* Mutant: an id above 15 is folded back into the binary range.
SlotPinsWrapped(segment_id, adjusted_bearing, center) ==
    IF segment_id # None
    THEN _create_id_pins_at_bearing(adjusted_bearing, center,
                                    IF Val(segment_id) > 15
                                    THEN Val(segment_id) - 15
                                    ELSE Val(segment_id))
    ELSE Returned(_create_index_pin_at_bearing(adjusted_bearing, center))

\* build_post's choice of keying for one slot: binary pins for an id up to
\* 15, one centred index pin for an absent or larger id.
SlotPins(segment_id, adjusted_bearing, center) ==
    IF segment_id # None /\ Val(segment_id) <= 15
    THEN _create_id_pins_at_bearing(adjusted_bearing, center, Val(segment_id))
    ELSE Returned(_create_index_pin_at_bearing(adjusted_bearing, center))

\* Mutant: every plate gets the centred index hole, whatever its id.
PlateHolesAlwaysCentre(segment_id, length, sign_height, left) ==
    Returned(_create_index_hole_for_sign(length, sign_height, left))

\* generate_sign's choice of hole cutter for its segment_id.
PlateHoles(segment_id, length, sign_height, left) ==
    IF segment_id # None /\ Val(segment_id) <= 15
    THEN _create_id_holes_for_sign(length, sign_height, left, Val(segment_id))
    ELSE Returned(_create_index_hole_for_sign(length, sign_height, left))

\* generate_sign: sign_height = self.flat_height - 2 * self.sign_clearance.
PlateHeight(fh) == fh - (2 * sign_clearance)

-----------------------------------------------------------------------------
(* Inputs.                                                                 *)

Ids == (0 - MaxNegId)..MaxId
OptIds == { None } \cup { Some(v) : v \in Ids }

\* Constructor arguments (post_height, flat_height, sign_vertical_spacing).
Configs ==
    { [post_height |-> 18000, flat_height |-> 2800, spacing |-> 800],
      [post_height |-> 10000, flat_height |-> 2800, spacing |-> 800],
      [post_height |-> 3000, flat_height |-> 2800, spacing |-> 800],
      [post_height |-> 25000, flat_height |-> 4000, spacing |-> 1000] }

DefaultConfig == [post_height |-> 18000, flat_height |-> 2800, spacing |-> 800]

\* __init__: the fields the model reads.
Construct(cfg) ==
    /\ post_height = Min(cfg.post_height, MaxPostHeight)
    /\ flat_height = cfg.flat_height
    /\ sign_vertical_spacing = cfg.spacing

\* Where the keying harness puts the slot and how long the plate is.
KeyPlacements ==
    { [center |-> 16200, bearing |-> 270, length |-> 6000],
      [center |-> 1800, bearing |-> 45, length |-> 20000] }

IdlePost ==
    /\ bearings = << >>
    /\ piece = "none"
    /\ i = 0
    /\ post_mesh = [height |-> 0, flats |-> {}, join_holes |-> {}]
    /\ add_meshes = << >>
    /\ built = << >>

IdleKey ==
    /\ slot_id = None
    /\ sign_center = 0
    /\ key_bearing = 0
    /\ pins_direct = NotCalled
    /\ holes_direct = NotCalled
    /\ slot_key = NotCalled
    /\ plate_key = NotCalled

IdleSign ==
    /\ text_len = 0
    /\ label_width = 0
    /\ max_sign_length = 200 * 1000000
    /\ distance = << >>
    /\ font_size = 0
    /\ distance_font_size = 0
    /\ layout_length = 0
    /\ sign_bearing = 0
    /\ arrowed = TRUE
    /\ sign_base = [blank |-> "none", length |-> 0, left |-> FALSE, holes |-> {},
                    vertices |-> << >>, faces |-> << >>]
    /\ sign_mesh = << >>

-----------------------------------------------------------------------------
(* The keying harness: the generators and the two callers' branches,      *)
(* applied to every pair of a slot id and a plate id.                      *)

InitKey ==
    /\ debug = FALSE
    /\ log = NoLog
    /\ union_log = << >>
    /\ union_failures = 0
    /\ call = "keying"
    /\ pc = "key"
    /\ error = "none"
    /\ Construct(DefaultConfig)
    /\ manifold = TRUE
    /\ IdlePost
    /\ IdleSign
    /\ last_diff = "none"
    /\ failures = 0
    /\ exported = << >>
    /\ slot_id \in OptIds
    /\ plate_id \in OptIds
    /\ \E p \in KeyPlacements :
          /\ sign_center = p.center
          /\ key_bearing = p.bearing
          /\ sign_length = p.length
          /\ point_left = (p.bearing > 180)
    /\ pins_direct = NotCalled
    /\ holes_direct = NotCalled
    /\ slot_key = NotCalled
    /\ plate_key = NotCalled

CallIdPins ==
    /\ UNCHANGED << debug, log, union_log, union_failures >>
    /\ UNCHANGED << text_len, distance, font_size, distance_font_size, layout_length,
                    label_width, max_sign_length >>
    /\ call = "keying"
    /\ slot_id # None
    /\ ~pins_direct.called
    /\ pins_direct' =
          _create_id_pins_at_bearing(key_bearing, sign_center, Val(slot_id))
    /\ UNCHANGED << call, sign_bearing, arrowed, failures, pc, error, post_height, flat_height,
                    sign_vertical_spacing, manifold, bearings, piece, i,
                    post_mesh, add_meshes, last_diff, built, exported,
                    slot_id, plate_id, sign_center, key_bearing,
                    holes_direct, slot_key, plate_key, sign_length,
                    point_left, sign_base, sign_mesh >>

CallIdHoles ==
    /\ UNCHANGED << debug, log, union_log, union_failures >>
    /\ UNCHANGED << text_len, distance, font_size, distance_font_size, layout_length,
                    label_width, max_sign_length >>
    /\ call = "keying"
    /\ plate_id # None
    /\ ~holes_direct.called
    /\ holes_direct' =
          _create_id_holes_for_sign(sign_length, PlateHeight(flat_height),
                                    point_left, Val(plate_id))
    /\ UNCHANGED << call, sign_bearing, arrowed, failures, pc, error, post_height, flat_height,
                    sign_vertical_spacing, manifold, bearings, piece, i,
                    post_mesh, add_meshes, last_diff, built, exported,
                    slot_id, plate_id, sign_center, key_bearing,
                    pins_direct, slot_key, plate_key, sign_length,
                    point_left, sign_base, sign_mesh >>

KeySlot ==
    /\ UNCHANGED << debug, log, union_log, union_failures >>
    /\ UNCHANGED << text_len, distance, font_size, distance_font_size, layout_length,
                    label_width, max_sign_length >>
    /\ call = "keying"
    /\ ~slot_key.called
    /\ slot_key' = SlotPins(slot_id, key_bearing, sign_center)
    /\ UNCHANGED << call, sign_bearing, arrowed, failures, pc, error, post_height, flat_height,
                    sign_vertical_spacing, manifold, bearings, piece, i,
                    post_mesh, add_meshes, last_diff, built, exported,
                    slot_id, plate_id, sign_center, key_bearing,
                    pins_direct, holes_direct, plate_key, sign_length,
                    point_left, sign_base, sign_mesh >>

KeyPlate ==
    /\ UNCHANGED << debug, log, union_log, union_failures >>
    /\ UNCHANGED << text_len, distance, font_size, distance_font_size, layout_length,
                    label_width, max_sign_length >>
    /\ call = "keying"
    /\ ~plate_key.called
    /\ plate_key' = PlateHoles(plate_id, sign_length,
                               PlateHeight(flat_height), point_left)
    /\ UNCHANGED << call, sign_bearing, arrowed, failures, pc, error, post_height, flat_height,
                    sign_vertical_spacing, manifold, bearings, piece, i,
                    post_mesh, add_meshes, last_diff, built, exported,
                    slot_id, plate_id, sign_center, key_bearing,
                    pins_direct, holes_direct, slot_key, sign_length,
                    point_left, sign_base, sign_mesh >>

NextKey == CallIdPins \/ CallIdHoles \/ KeySlot \/ KeyPlate

SpecKey == InitKey /\ [][NextKey]_vars

-----------------------------------------------------------------------------
(* generate_post.                                                          *)

\* A slot entry: a dict with optional "bearing", "segment_id" and "spacer"
\* keys (isdict), or a bare bearing.
Entry(d, b, id, sp) == [isdict |-> d, bearing |-> b, segment_id |-> id, spacer |-> sp]

\* The slot main() builds for the k-th sign: a dict with segment id k.
Regular(k) == Entry(TRUE, Some((180 + 75 * (k - 1)) % 360), Some(k), FALSE)

EntryKinds == { "spacer", "nobearing", "noid", "bigid", "nonpositive", "bare" }

Special(kind, k) ==
    CASE kind = "spacer" -> Entry(TRUE, None, None, TRUE)
      [] kind = "nobearing" -> Entry(TRUE, None, Some(k), FALSE)
      [] kind = "noid" -> Entry(TRUE, Some(90), None, FALSE)
      [] kind = "bigid" -> Entry(TRUE, Some(270), Some(15 + k), FALSE)
      [] kind = "nonpositive" -> Entry(TRUE, Some(0), Some(1 - k), FALSE)
      [] kind = "bare" -> Entry(FALSE, Some(315), None, FALSE)

\* The input lists: n regular slots, with at most one of them replaced by a
\* special entry, or n bare bearings.
SlotLists ==
    { [k \in 1..n |-> Regular(k)] : n \in 0..MaxSlots }
    \cup { [k \in 1..n |-> Entry(FALSE, Some((45 * k) % 360), None, FALSE)] :
             n \in 1..MaxSlots }
    \cup UNION { { [k \in 1..n |-> IF k = p THEN Special(kind, k) ELSE Regular(k)] :
                     p \in 1..n, kind \in EntryKinds } : n \in 1..MaxSpecialLen }

segment_height == flat_height + sign_vertical_spacing
sign_gap_half == sign_vertical_spacing \div 2

\* Mutant: the slot that fits above the first full pitch is not counted.
MaxSlotsWithoutFirst(height) ==
    LET usable == height - sign_vertical_spacing - flat_height
    IN  IF usable <= 0 THEN 1 ELSE Max(1, usable \div segment_height)

max_slots_per_post(height) ==
    LET usable == height - sign_vertical_spacing - flat_height
    IN  IF usable <= 0 THEN 1 ELSE Max(1, (usable \div segment_height) + 1)

\* Mutant: the upper piece stops one slot early.
UpperEntriesShort == SubSeq(bearings, 1, Min(Len(bearings), max_slots_per_post(post_height)) - 1)

entries == bearings
upper_capacity == max_slots_per_post(post_height)
split_index == Min(Len(entries), upper_capacity)
upper_entries == SubSeq(entries, 1, split_index)
lower_entries == SubSeq(entries, split_index + 1, Len(entries))

\* Mutant: the first centre is already one pitch below the top centre.
SlotCentersOneLower(height, count) ==
    IF count <= 0
    THEN << >>
    ELSE [k \in 1..count |->
            (height - sign_gap_half - (flat_height \div 2)) - k * segment_height]

slot_centers(height, count) ==
    IF count <= 0
    THEN << >>
    ELSE [k \in 1..count |->
            (height - sign_gap_half - (flat_height \div 2)) - (k - 1) * segment_height]

\* post_height = max(self.post_height, segment_height), the height of both
\* pieces.
upper_height == Max(post_height, segment_height)
lower_height == Max(post_height, segment_height)

\* build_post's arguments for the piece being built.
PieceEntries == IF piece = "lower" THEN lower_entries ELSE upper_entries
PieceHeight == IF piece = "lower" THEN lower_height ELSE upper_height
base_index == IF piece = "lower" THEN split_index ELSE 0

\* The loop's current entry and what build_post reads from it.
entry == PieceEntries[i + 1]
EntrySegmentId == IF entry.isdict THEN entry.segment_id ELSE Some(base_index + i + 1)
is_spacer == IF entry.isdict THEN entry.spacer ELSE FALSE
\* Mutant: a skipped entry does not use up a centre.
SlotCenterIgnoringSkipped ==
    slot_centers(PieceHeight, Len(PieceEntries))[
        1 + Cardinality({ k \in 1..i :
                            ~( (PieceEntries[k].isdict /\ PieceEntries[k].spacer)
                               \/ PieceEntries[k].bearing = None ) })]

slot_center == slot_centers(PieceHeight, Len(PieceEntries))[i + 1]
adjusted_bearing == (Val(entry.bearing) + 90) % 360

\* The box that carves a flat: as wide as the post, flat_height tall,
\* centred on the slot.
_create_box_mesh_at_bearing(bearing, sign_height) ==
    [bearing |-> bearing, z |-> sign_height, height |-> flat_height,
     depth |-> 3 * flat_depth,
     radial |-> post_radius - flat_depth + ((3 * flat_depth) \div 2)]

\* The fresh cylinder build_post starts from.
PostCylinder(height) == [height |-> height, flats |-> {}, join_holes |-> {}]

\* mesh.difference(cutter): the backend returns a mesh with faces, returns
\* an empty mesh or raises; at most MaxFailures calls fail in a run.
DiffOutcomes ==
    IF failures < MaxFailures /\ union_failures = 0
    THEN { "ok", "empty", "raise" }
    ELSE { "ok" }

\* Mutant: the result of the difference is taken without the check for faces.
KeepsEmptyResult(mesh, new_mesh, outcome) ==
    IF outcome # "raise" THEN new_mesh ELSE mesh

\* try: new_mesh = mesh.difference(cutter); the mesh is replaced only by a
\* result that is not None and has faces, and kept on an exception.
AfterDifference(mesh, new_mesh, outcome) ==
    IF outcome = "ok" THEN new_mesh ELSE mesh

Failed(outcome) == IF outcome \in { "ok", "first" } THEN 0 ELSE 1

\* Mutant: the second join pin sits opposite the first.
JoinOffsetsOpposite ==
    LET primary == (post_radius * 45) \div 100
    IN  << << primary, 0 >>, << 0 - primary, 0 >> >>

_get_post_join_pin_offsets ==
    LET primary == (post_radius * 45) \div 100
        secondary == (post_radius * 28) \div 100
    IN  << << primary, 0 >>, << 0 - secondary, 0 - ((primary * 6) \div 10) >> >>

_create_post_join_pins(height) ==
    { [kind |-> "join_pin", r |-> join_pin_radius, len |-> join_pin_length,
       x |-> _get_post_join_pin_offsets[k][1],
       y |-> _get_post_join_pin_offsets[k][2],
       z |-> (height - boolean_overlap) + (join_pin_length \div 2)] : k \in 1..2 }

_create_post_join_pin_holes ==
    { [kind |-> "join_hole", r |-> join_pin_radius + join_pin_clearance,
       depth |-> join_pin_length + join_pin_clearance,
       x |-> _get_post_join_pin_offsets[k][1],
       y |-> _get_post_join_pin_offsets[k][2],
       z |-> (join_pin_length + join_pin_clearance) \div 2] : k \in 1..2 }

\* _get_boolean_engine: "manifold", or RuntimeError when it is not installed.
_get_boolean_engine ==
    IF manifold THEN Returned(Some("manifold")) ELSE Raised("RuntimeError")

\* What the backend does with a union: the first attempt returns a mesh;
\* it returns nothing and the exact-mode retry returns a mesh; both return
\* nothing; the first attempt raises; the retry raises.  A run of the model
\* has failing differences or failing unions, not both.
UnionOutcomes ==
    IF union_failures < MaxUnionFailures /\ failures = 0
    THEN { "first", "retry", "empty", "raise", "retry_raise" }
    ELSE { "first" }

\* Mutant: when both attempts come back empty, so does _union_meshes.
UnionGivesUpEmpty(meshes, outcome) ==
    IF _get_boolean_engine.raised # "none"
    THEN Raised(_get_boolean_engine.raised)
    ELSE Returned([parts |-> IF outcome = "empty" THEN << >> ELSE meshes,
                   fused |-> outcome \in { "first", "retry" }])

\* The calls of trimesh.boolean.union that _union_meshes makes: the first
\* on the meshes cleaned by _prepare_mesh_for_boolean, the exact-mode retry
\* on the meshes it was given.
UnionAttempts(meshes, outcome) ==
    << [use_exact |-> FALSE, cleaned |-> TRUE, meshes |-> meshes] >>
    \o (IF outcome \in { "retry", "empty", "retry_raise" }
        THEN << [use_exact |-> TRUE, cleaned |-> FALSE, meshes |-> meshes] >>
        ELSE << >>)

\* The warnings _union_meshes prints with a backend present.
UnionWarnings(outcome) ==
    CASE outcome = "first" -> { }
      [] outcome = "retry" -> { "union_retry" }
      [] outcome = "empty" -> { "union_retry", "union_fallback" }
      [] outcome = "raise" -> { "union_fallback" }
      [] outcome = "retry_raise" -> { "union_retry", "union_fallback" }

\* _union_meshes(meshes): ValueError for an empty list, RuntimeError when
\* there is no engine (the getter raises, so "engine is None" never holds);
\* otherwise the fused mesh, or the plain concatenation of the meshes it
\* was given when both attempts come back empty or one of them raises.
_union_meshes(meshes, outcome) ==
    IF meshes = << >>
    THEN Raised("ValueError")
    ELSE IF _get_boolean_engine.raised # "none"
    THEN Raised(_get_boolean_engine.raised)
    ELSE IF _get_boolean_engine.mesh = None
    THEN Returned([parts |-> meshes, fused |-> FALSE])
    ELSE Returned([parts |-> meshes, fused |-> outcome \in { "first", "retry" }])

\* One call of _union_meshes as union_log records it.
UnionCall(meshes, outcome) ==
    LET res == _union_meshes(meshes, outcome)
    IN  [meshes |-> meshes,
         result |-> res,
         outcome |-> IF res.raised = "none" THEN outcome ELSE "none",
         attempts |-> IF res.raised = "none"
                      THEN UnionAttempts(meshes, outcome)
                      ELSE << >>]

\* The state after a call of _union_meshes: the call is recorded, its
\* warnings are printed, a failed first attempt is counted.
AfterUnion(c) ==
    /\ union_log' = Append(union_log, c)
    /\ log' = IF c.result.raised = "none"
              THEN _print(log, UnionWarnings(c.outcome))
              ELSE log
    /\ union_failures' = IF c.result.raised = "none"
                         THEN union_failures + Failed(c.outcome)
                         ELSE union_failures

InitPost ==
    /\ debug \in BOOLEAN
    /\ log = NoLog
    /\ union_log = << >>
    /\ union_failures = 0
    /\ call = "generate_post"
    /\ pc = "start"
    /\ error = "none"
    /\ \E cfg \in Configs : Construct(cfg)
    /\ manifold \in BOOLEAN
    /\ bearings \in SlotLists
    /\ piece = "none"
    /\ i = 0
    /\ post_mesh = PostCylinder(0)
    /\ add_meshes = << >>
    /\ built = << >>
    /\ last_diff = "none"
    /\ failures = 0
    /\ exported = << >>
    /\ IdleKey
    /\ plate_id = None
    /\ sign_length = 0
    /\ point_left = FALSE
    /\ IdleSign

\* build_post(...) is entered: the fresh cylinder and an empty add_meshes.
EnterBuildPost(which, height) ==
    /\ piece' = which
    /\ i' = 0
    /\ post_mesh' = PostCylinder(height)
    /\ add_meshes' = << >>
    /\ pc' = "slot"

\* generate_post up to the first build_post call: the split, the base and
\* its decorations, then the lower piece is begun.
StartPost ==
    /\ UNCHANGED << debug, log, union_log, union_failures >>
    /\ UNCHANGED << text_len, distance, font_size, distance_font_size, layout_length,
                    label_width, max_sign_length >>
    /\ call = "generate_post"
    /\ pc = "start"
    /\ EnterBuildPost("lower", lower_height)
    /\ UNCHANGED << call, sign_bearing, arrowed, failures, error, post_height, flat_height,
                    sign_vertical_spacing, manifold, bearings, last_diff,
                    built, exported, slot_id, plate_id, sign_center,
                    key_bearing, pins_direct, holes_direct, slot_key,
                    plate_key, sign_length, point_left, sign_base, sign_mesh >>

\* A spacer, or an entry without a bearing: the loop moves on.
SkipSlot ==
    /\ UNCHANGED << debug, log, union_log, union_failures >>
    /\ UNCHANGED << text_len, distance, font_size, distance_font_size, layout_length,
                    label_width, max_sign_length >>
    /\ call = "generate_post"
    /\ pc = "slot"
    /\ i < Len(PieceEntries)
    /\ (is_spacer \/ entry.bearing = None)
    /\ i' = i + 1
    /\ UNCHANGED << call, sign_bearing, arrowed, failures, pc, error, post_height, flat_height,
                    sign_vertical_spacing, manifold, bearings, piece,
                    post_mesh, add_meshes, last_diff, built, exported,
                    slot_id, plate_id, sign_center, key_bearing, pins_direct,
                    holes_direct, slot_key, plate_key, sign_length,
                    point_left, sign_base, sign_mesh >>

\* The flat of the current slot is carved: post_mesh.difference(box_mesh),
\* kept only when it returns a mesh with faces.
CarveFlat ==
    /\ UNCHANGED << debug, log, union_log, union_failures >>
    /\ UNCHANGED << text_len, distance, font_size, distance_font_size, layout_length,
                    label_width, max_sign_length >>
    /\ call = "generate_post"
    /\ pc = "slot"
    /\ i < Len(PieceEntries)
    /\ ~(is_spacer \/ entry.bearing = None)
    /\ \E outcome \in DiffOutcomes :
          /\ last_diff' = outcome
          /\ failures' = failures + Failed(outcome)
          /\ post_mesh' =
                AfterDifference(post_mesh,
                    [post_mesh EXCEPT !.flats =
                       @ \cup { _create_box_mesh_at_bearing(adjusted_bearing, slot_center) }],
                    outcome)
    /\ pc' = "pins"
    /\ UNCHANGED << call, sign_bearing, arrowed, error, post_height, flat_height,
                    sign_vertical_spacing, manifold, bearings, piece, i,
                    add_meshes, built, exported, slot_id, plate_id,
                    sign_center, key_bearing, pins_direct, holes_direct,
                    slot_key, plate_key, sign_length, point_left, sign_base,
                    sign_mesh >>

\* The pins of the current slot are built and appended to add_meshes; the
\* binary generator's ValueError is not caught and ends generate_post.
AddPins ==
    /\ UNCHANGED << debug, log, union_log, union_failures >>
    /\ UNCHANGED << text_len, distance, font_size, distance_font_size, layout_length,
                    label_width, max_sign_length >>
    /\ call = "generate_post"
    /\ pc = "pins"
    /\ LET res == SlotPins(EntrySegmentId, adjusted_bearing, slot_center)
       IN  IF res.raised # "none"
           THEN /\ error' = res.raised
                /\ pc' = "raised"
                /\ UNCHANGED << i, add_meshes >>
           ELSE /\ add_meshes' = Append(add_meshes, res.mesh)
                /\ i' = i + 1
                /\ pc' = "slot"
                /\ UNCHANGED error
    /\ UNCHANGED << call, sign_bearing, arrowed, failures, post_height, flat_height, sign_vertical_spacing,
                    manifold, bearings, piece, post_mesh, last_diff, built,
                    exported, slot_id, plate_id, sign_center, key_bearing,
                    pins_direct, holes_direct, slot_key, plate_key,
                    sign_length, point_left, sign_base, sign_mesh >>

\* Mutant: the join holes are cut into the lower piece as well.
CutJoinHolesInAnyPiece ==
    /\ UNCHANGED << debug, log, union_log, union_failures >>
    /\ UNCHANGED << text_len, distance, font_size, distance_font_size, layout_length,
                    label_width, max_sign_length >>
    /\ call = "generate_post"
    /\ pc = "slot"
    /\ i = Len(PieceEntries)
    /\ \E outcome \in DiffOutcomes :
          /\ last_diff' = outcome
          /\ failures' = failures + Failed(outcome)
          /\ post_mesh' =
                AfterDifference(post_mesh,
                    [post_mesh EXCEPT !.join_holes = _create_post_join_pin_holes],
                    outcome)
    /\ pc' = "union"
    /\ UNCHANGED << call, sign_bearing, arrowed, error, post_height, flat_height,
                    sign_vertical_spacing, manifold, bearings, piece, i,
                    add_meshes, built, exported, slot_id, plate_id,
                    sign_center, key_bearing, pins_direct, holes_direct,
                    slot_key, plate_key, sign_length, point_left, sign_base,
                    sign_mesh >>

\* After the loop, the upper piece (cut_join_holes) gets the join holes cut.
CutJoinHoles ==
    /\ UNCHANGED << debug, log, union_log, union_failures >>
    /\ UNCHANGED << text_len, distance, font_size, distance_font_size, layout_length,
                    label_width, max_sign_length >>
    /\ call = "generate_post"
    /\ pc = "slot"
    /\ i = Len(PieceEntries)
    /\ piece = "upper"
    /\ \E outcome \in DiffOutcomes :
          /\ last_diff' = outcome
          /\ failures' = failures + Failed(outcome)
          /\ post_mesh' =
                AfterDifference(post_mesh,
                    [post_mesh EXCEPT !.join_holes = _create_post_join_pin_holes],
                    outcome)
    /\ pc' = "union"
    /\ UNCHANGED << call, sign_bearing, arrowed, error, post_height, flat_height,
                    sign_vertical_spacing, manifold, bearings, piece, i,
                    add_meshes, built, exported, slot_id, plate_id,
                    sign_center, key_bearing, pins_direct, holes_direct,
                    slot_key, plate_key, sign_length, point_left, sign_base,
                    sign_mesh >>

\* After the loop, the lower piece (add_join_pins) gets the join pins added.
AddJoinPins ==
    /\ UNCHANGED << debug, log, union_log, union_failures >>
    /\ UNCHANGED << text_len, distance, font_size, distance_font_size, layout_length,
                    label_width, max_sign_length >>
    /\ call = "generate_post"
    /\ pc = "slot"
    /\ i = Len(PieceEntries)
    /\ piece = "lower"
    /\ add_meshes' = Append(add_meshes, _create_post_join_pins(PieceHeight))
    /\ pc' = "union"
    /\ UNCHANGED << call, sign_bearing, arrowed, failures, error, post_height, flat_height,
                    sign_vertical_spacing, manifold, bearings, piece, i,
                    post_mesh, last_diff, built, exported, slot_id, plate_id,
                    sign_center, key_bearing, pins_direct, holes_direct,
                    slot_key, plate_key, sign_length, point_left, sign_base,
                    sign_mesh >>

\* build_post's last step: the body is unioned with add_meshes, when there
\* are any, and returned.  The lower piece goes on to the union with the
\* base, the upper piece to its export.
UnionPost ==
    /\ UNCHANGED << text_len, distance, font_size, distance_font_size, layout_length,
                    label_width, max_sign_length >>
    /\ call = "generate_post"
    /\ pc = "union"
    /\ \E outcome \in UnionOutcomes :
          LET c == UnionCall(<< post_mesh >> \o add_meshes, outcome)
              res == IF add_meshes # << >>
                     THEN c.result
                     ELSE Returned([parts |-> << post_mesh >>, fused |-> TRUE])
          IN  /\ IF add_meshes # << >>
                 THEN AfterUnion(c)
                 ELSE /\ outcome = "first"
                      /\ UNCHANGED << log, union_log, union_failures >>
              /\ IF res.raised # "none"
                 THEN /\ error' = res.raised
                      /\ pc' = "raised"
                      /\ UNCHANGED built
                 ELSE /\ built' = Append(built, [piece |-> piece, mesh |-> res.mesh])
                      /\ pc' = IF piece = "lower" THEN "lower_union" ELSE "upper_export"
                      /\ UNCHANGED error
    /\ UNCHANGED << call, sign_bearing, arrowed, post_height, flat_height, sign_vertical_spacing,
                    manifold, bearings, piece, i, post_mesh, add_meshes,
                    last_diff, failures, debug, exported, slot_id, plate_id, sign_center,
                    key_bearing, pins_direct, holes_direct, slot_key,
                    plate_key, sign_length, point_left, sign_base, sign_mesh >>

\* The lower post is unioned with the base and its decorations, the result
\* is exported, and build_post is entered for the upper piece.
ExportLower ==
    /\ UNCHANGED << text_len, distance, font_size, distance_font_size, layout_length,
                    label_width, max_sign_length >>
    /\ call = "generate_post"
    /\ pc = "lower_union"
    /\ \E outcome \in UnionOutcomes :
          LET c == UnionCall(<< "base_mesh", "arrow_mesh", built[1].mesh,
                                  "compass_meshes" >>, outcome)
              res == c.result
          IN  /\ AfterUnion(c)
              /\ IF res.raised # "none"
                 THEN /\ error' = res.raised
                      /\ pc' = "raised"
                      /\ UNCHANGED << exported, piece, i, post_mesh, add_meshes >>
                 ELSE /\ exported' = Append(exported,
                                            [file |-> "post_lower", mesh |-> res.mesh])
                      /\ EnterBuildPost("upper", upper_height)
                      /\ UNCHANGED error
    /\ UNCHANGED << call, sign_bearing, arrowed, post_height, flat_height, sign_vertical_spacing,
                    manifold, bearings, last_diff, failures, debug, built, slot_id, plate_id,
                    sign_center, key_bearing, pins_direct, holes_direct,
                    slot_key, plate_key, sign_length, point_left, sign_base,
                    sign_mesh >>

\* The upper post is exported and generate_post returns.
ExportUpper ==
    /\ UNCHANGED << debug, log, union_log, union_failures >>
    /\ UNCHANGED << text_len, distance, font_size, distance_font_size, layout_length,
                    label_width, max_sign_length >>
    /\ call = "generate_post"
    /\ pc = "upper_export"
    /\ exported' = Append(exported, [file |-> "post_upper", mesh |-> built[2].mesh])
    /\ pc' = "done"
    /\ UNCHANGED << call, sign_bearing, arrowed, failures, error, post_height, flat_height,
                    sign_vertical_spacing, manifold, bearings, piece, i,
                    post_mesh, add_meshes, last_diff, built, slot_id,
                    plate_id, sign_center, key_bearing, pins_direct,
                    holes_direct, slot_key, plate_key, sign_length,
                    point_left, sign_base, sign_mesh >>

NextPost ==
    \/ StartPost
    \/ SkipSlot
    \/ CarveFlat
    \/ AddPins
    \/ CutJoinHoles
    \/ AddJoinPins
    \/ UnionPost
    \/ ExportLower
    \/ ExportUpper

SpecPost == InitPost /\ [][NextPost]_vars

-----------------------------------------------------------------------------
(* generate_sign: the plate blank, its keying holes, the embossed text and *)
(* the export.                                                             *)

SignBearings == { 90, 180, 200 }

\* The layout is computed in millionths of a millimetre, so that every
\* 0.65x, 0.85x and 0.6x of the source is exact; Micro of them make one
\* hundredth.
Micro == 100 * 100

\* max_sign_length as the constructor may be given it: the default 200.0,
\* and a maximum below the 60.0 floor.
MaxSignLengths == { 200 * 1000000, 50 * 1000000 }
min_font_size == 10000000
max_font_size == 20000000
min_distance_font_size == 5000000
min_main_font == 12000000
attach_padding == 10000000
left_attach_padding == attach_padding + (4 * 1000000)
tip_padding == 3000000
base_text_gap == 16000000
distance_width_margin == 2000000
\* The 60.0 below which a plate is never made, and the 0.5 of a font step.
min_sign_length == 60000000
font_step == 500000

\* x * name_width_factor (0.65), x * 0.85 and x * distance_width_factor (0.6).
TimesNameFactor(x) == (x * 13) \div 20
TimesUnitsFactor(x) == (x * 17) \div 20
TimesDistanceFactor(x) == (x * 3) \div 5

\* Length of the first n words of a text joined by single spaces.
RECURSIVE JoinedLen(_, _)
JoinedLen(words, n) ==
    IF n = 0 THEN 0
    ELSE IF n = 1 THEN words[1]
    ELSE JoinedLen(words, n - 1) + 1 + words[n]

\* _split_distance_text: the lengths of the value and of the units.
_split_distance_text(words) ==
    IF words = << >>
    THEN [value |-> 0, units |-> 0]
    ELSE IF Len(words) >= 2
    THEN [value |-> JoinedLen(words, Len(words) - 1), units |-> words[Len(words)]]
    ELSE [value |-> words[1], units |-> 0]

distance_value == _split_distance_text(distance).value
distance_units == _split_distance_text(distance).units
has_distance == distance_value > 0

\* Mutant: the 180 degree boundary points left as well.
PointsLeftFromBoundary(bearing, with_arrow) ==
    IF with_arrow THEN bearing >= 180 ELSE FALSE

\* point_left = bearing > 180.0 if arrowed else False.
PointsLeft(bearing, with_arrow) ==
    IF with_arrow THEN bearing > 180 ELSE FALSE

\* sign_height, in layout units.
plate_height == PlateHeight(flat_height) * Micro
point_length == IF arrowed THEN plate_height \div 2 ELSE 0

\* The fonts before any fitting.
InitialFontSize == Min(max_font_size, (plate_height * 4) \div 5)
InitialDistanceFontSize ==
    Max(min_distance_font_size,
        Min(Min(max_font_size \div 2, (plate_height * 19) \div 50),
            TimesNameFactor(InitialFontSize)))

units_font_size(d) == Max(min_distance_font_size, TimesUnitsFactor(d))

main_text_width(font) == text_len * TimesNameFactor(font)

compute_distance_width(d) ==
    Max(distance_value * TimesDistanceFactor(d),
        distance_units * TimesDistanceFactor(units_font_size(d)))
      + distance_width_margin

distance_width(d) == IF has_distance THEN compute_distance_width(d) ELSE 0

attach_pad(left) == IF left THEN left_attach_padding ELSE attach_padding
text_gap == Max(10 * 1000000, base_text_gap - (Max(0, text_len - 6) * 1200000))
effective_gap == IF has_distance THEN text_gap ELSE 0

compute_required_body_length(left, font, d) ==
    attach_pad(left) + main_text_width(font) + effective_gap
      + distance_width(d) + tip_padding

body_length == layout_length - point_length
required_body_length ==
    compute_required_body_length(point_left, font_size, distance_font_size)

\* The condition of the fitting loop.
StillFitting ==
    /\ required_body_length > body_length
    /\ (font_size > min_main_font \/ distance_font_size > min_distance_font_size)

\* Mutant: with the main font at its floor the distance font stays as it is.
FitFontsMainOnly(font, d) ==
    LET f1 == IF font > min_main_font
              THEN Max(min_main_font, font - font_step)
              ELSE font
    IN  [font_size |-> f1,
         distance_font_size |-> Min(d, TimesNameFactor(f1))]

\* Mutant: the distance font is not capped at 0.65 of the main font.
FitFontsWithoutCap(font, d) ==
    IF font > min_main_font
    THEN [font_size |-> Max(min_main_font, font - font_step),
          distance_font_size |-> d]
    ELSE [font_size |-> font,
          distance_font_size |-> Max(min_distance_font_size, d - font_step)]

\* One iteration of the fitting loop: the main font steps down while it is
\* above its floor, otherwise the distance font does; then the distance
\* font is capped at 0.65 of the main font.
FitFonts(font, d) ==
    LET f1 == IF font > min_main_font
              THEN Max(min_main_font, font - font_step)
              ELSE font
        d1 == IF font > min_main_font
              THEN d
              ELSE Max(min_distance_font_size, d - font_step)
    IN  [font_size |-> f1,
         distance_font_size |-> Min(d1, TimesNameFactor(f1))]

\* "Final calculations": the distance font is capped once more.
FinalDistanceFont(font, d) == Min(d, TimesNameFactor(font))

\* "Clamp font size".
FinalFontSize(font) == Max(min_font_size, Min(font, max_font_size))

\* Mutant: the last shrink goes below the 60.0 floor.
FinalLengthWithoutFloor(len, font, d) ==
    LET floored == IF len < min_sign_length THEN min_sign_length ELSE len
        required == compute_required_body_length(point_left, font, d)
    IN  IF required < floored - point_length
        THEN required + point_length
        ELSE floored

\* The last steps of the layout: the minimum practical length, then the
\* shrink to what the final widths require.
FinalLength(len, font, d) ==
    LET floored == IF len < min_sign_length THEN min_sign_length ELSE len
        required == compute_required_body_length(point_left, font, d)
    IN  IF required < floored - point_length
        THEN Max(min_sign_length, required + point_length)
        ELSE floored

\* Labels and distance texts given to generate_sign.
LabelLens == { 1, 14, 18, MaxLabelLen }
DistanceTexts == { << >>, << 3, 2 >> }

\* Constructor arguments of the generators that make plates.
SignConfigs ==
    { DefaultConfig,
      [post_height |-> 18000, flat_height |-> 800, spacing |-> 800] }

InitSign ==
    /\ debug \in BOOLEAN
    /\ log = NoLog
    /\ union_log = << >>
    /\ union_failures = 0
    /\ call = "generate_sign"
    /\ pc = "start"
    /\ error = "none"
    /\ \E cfg \in SignConfigs : Construct(cfg)
    /\ manifold \in BOOLEAN
    /\ IdlePost
    /\ last_diff = "none"
    /\ failures = 0
    /\ exported = << >>
    /\ IdleKey
    /\ plate_id \in OptIds
    /\ sign_bearing \in SignBearings
    /\ arrowed \in BOOLEAN
    /\ text_len \in LabelLens
    /\ label_width = 0
    /\ max_sign_length \in MaxSignLengths
    /\ distance \in DistanceTexts
    /\ font_size = 0
    /\ distance_font_size = 0
    /\ layout_length = 0
    /\ sign_length = 0
    /\ point_left = FALSE
    /\ sign_base = [blank |-> "none", length |-> 0, left |-> FALSE, holes |-> {},
                    vertices |-> << >>, faces |-> << >>]
    /\ sign_mesh = << >>

\* generate_sign up to the fitting loop: point_left, the initial fonts, and
\* the plate shortened to what the text requires when it fits with room.
StartLayout ==
    /\ call = "generate_sign"
    /\ pc = "start"
    /\ point_left' = PointsLeft(sign_bearing, arrowed)
    /\ font_size' = InitialFontSize
    /\ distance_font_size' = InitialDistanceFontSize
    /\ LET required == compute_required_body_length(point_left', font_size',
                                                    distance_font_size')
           body == max_sign_length - point_length
       IN  /\ layout_length' =
                IF required < body /\ required + point_length < max_sign_length
                THEN Max(min_sign_length, required + point_length)
                ELSE max_sign_length
           /\ pc' = IF required > body THEN "fit" ELSE "commit"
    /\ UNCHANGED << call, error, post_height, flat_height,
                    sign_vertical_spacing, manifold, bearings, piece, i,
                    post_mesh, add_meshes, last_diff, failures, built,
                    exported, slot_id, plate_id, sign_center, key_bearing,
                    pins_direct, holes_direct, slot_key, plate_key,
                    sign_bearing, arrowed, sign_length, sign_base, sign_mesh,
                    debug, log, union_log, union_failures, text_len, max_sign_length, distance,
                    label_width >>

\* One iteration of the fitting loop.
FitStep ==
    /\ call = "generate_sign"
    /\ pc = "fit"
    /\ StillFitting
    /\ font_size' = FitFonts(font_size, distance_font_size).font_size
    /\ distance_font_size' =
          FitFonts(font_size, distance_font_size).distance_font_size
    /\ UNCHANGED << call, pc, error, post_height, flat_height,
                    sign_vertical_spacing, manifold, bearings, piece, i,
                    post_mesh, add_meshes, last_diff, failures, built,
                    exported, slot_id, plate_id, sign_center, key_bearing,
                    pins_direct, holes_direct, slot_key, plate_key,
                    sign_bearing, arrowed, sign_length, point_left, sign_base,
                    sign_mesh, debug, log, union_log, union_failures,
                    text_len, max_sign_length, distance, layout_length,
                    label_width >>

\* The loop is left; the overlap warning is printed when the texts still
\* do not fit.
EndFit ==
    /\ call = "generate_sign"
    /\ pc = "fit"
    /\ ~StillFitting
    /\ log' = IF required_body_length > body_length
              THEN _print(log, { "overlap" })
              ELSE log
    /\ pc' = "commit"
    /\ UNCHANGED << call, error, post_height, flat_height,
                    sign_vertical_spacing, manifold, bearings, piece, i,
                    post_mesh, add_meshes, last_diff, failures, built,
                    exported, slot_id, plate_id, sign_center, key_bearing,
                    pins_direct, holes_direct, slot_key, plate_key,
                    sign_bearing, arrowed, sign_length, point_left, sign_base,
                    sign_mesh, debug, union_log, union_failures, text_len, max_sign_length,
                    distance, font_size, distance_font_size, layout_length,
                    label_width >>

\* The layout is committed: the last cap of the distance font, the clamp
\* of the main font, and the final plate length, which the mesh takes to a
\* hundredth of a millimetre.
CommitLayout ==
    /\ call = "generate_sign"
    /\ pc = "commit"
    /\ distance_font_size' = FinalDistanceFont(font_size, distance_font_size)
    /\ font_size' = FinalFontSize(font_size)
    /\ layout_length' = FinalLength(layout_length, font_size, distance_font_size')
    /\ label_width' = main_text_width(font_size)
    /\ sign_length' = layout_length' \div Micro
    /\ pc' = "blank"
    /\ UNCHANGED << call, error, post_height, flat_height,
                    sign_vertical_spacing, manifold, bearings, piece, i,
                    post_mesh, add_meshes, last_diff, failures, built,
                    exported, slot_id, plate_id, sign_center, key_bearing,
                    pins_direct, holes_direct, slot_key, plate_key,
                    sign_bearing, arrowed, point_left, sign_base, sign_mesh,
                    debug, log, union_log, union_failures, text_len, max_sign_length, distance >>

\* The dart of an arrowed plate as the code lists it for a plate pointing
\* right: the square end at x = 0 (vertices 0..3), the end of the body at
\* x = sign_length - point_length (4..7) and the tip at x = sign_length,
\* half way up (8, 9). Coordinates are << x, y, z >> in millionths of a mm.
right_vertices(length) ==
    LET thickness == sign_thickness * Micro
        body == length - point_length
        tip_y == plate_height \div 2
    IN  << << 0, 0, 0 >>, << 0, plate_height, 0 >>,
           << 0, plate_height, thickness >>, << 0, 0, thickness >>,
           << body, 0, 0 >>, << body, plate_height, 0 >>,
           << body, plate_height, thickness >>, << body, 0, thickness >>,
           << length, tip_y, 0 >>, << length, tip_y, thickness >> >>

\* Mutant: the face list without the two triangles of the point's top and
\* bottom.
FacesWithoutPointCaps ==
    << << 0, 2, 1 >>, << 0, 3, 2 >>, << 0, 1, 5 >>, << 0, 5, 4 >>,
       << 3, 6, 2 >>, << 3, 7, 6 >>, << 0, 4, 7 >>, << 0, 7, 3 >>,
       << 1, 2, 6 >>, << 1, 6, 5 >>,
       << 4, 8, 9 >>, << 4, 9, 7 >>, << 5, 6, 9 >>, << 5, 9, 8 >> >>

\* Mutant: the first triangle of the tip's upper side runs the other way.
FacesOneFlipped ==
    << << 0, 2, 1 >>, << 0, 3, 2 >>, << 0, 1, 5 >>, << 0, 5, 4 >>,
       << 3, 6, 2 >>, << 3, 7, 6 >>, << 0, 4, 7 >>, << 0, 7, 3 >>,
       << 1, 2, 6 >>, << 1, 6, 5 >>, << 4, 5, 8 >>, << 7, 9, 6 >>,
       << 4, 8, 9 >>, << 4, 9, 7 >>, << 9, 6, 5 >>, << 5, 9, 8 >> >>

\* The triangles of the right-pointing dart, as indices (from 0) into the
\* vertex list.
right_faces ==
    << << 0, 2, 1 >>, << 0, 3, 2 >>, << 0, 1, 5 >>, << 0, 5, 4 >>,
       << 3, 6, 2 >>, << 3, 7, 6 >>, << 0, 4, 7 >>, << 0, 7, 3 >>,
       << 1, 2, 6 >>, << 1, 6, 5 >>, << 4, 5, 8 >>, << 7, 9, 6 >>,
       << 4, 8, 9 >>, << 4, 9, 7 >>, << 5, 6, 9 >>, << 5, 9, 8 >> >>

\* The vertex and face lists handed to trimesh.Trimesh: for point_left
\* every x becomes sign_length - x and every triangle is reversed.
vertices(length, left) ==
    IF left
    THEN [k \in 1..Len(right_vertices(length)) |->
            << length - right_vertices(length)[k][1],
               right_vertices(length)[k][2], right_vertices(length)[k][3] >>]
    ELSE right_vertices(length)

faces(left) ==
    IF left
    THEN [k \in 1..Len(right_faces) |->
            << right_faces[k][3], right_faces[k][2], right_faces[k][1] >>]
    ELSE right_faces


\* The plate blank is built: the dart for an arrowed plate, mirrored when
\* it points left, a plain box otherwise.
BuildBlank ==
    /\ call = "generate_sign"
    /\ pc = "blank"
    /\ sign_base' = [blank |-> IF arrowed THEN "dart" ELSE "box",
                     length |-> sign_length, left |-> point_left, holes |-> {},
                     vertices |-> IF arrowed
                                  THEN vertices(layout_length, point_left)
                                  ELSE << >>,
                     faces |-> IF arrowed THEN faces(point_left) ELSE << >>]
    /\ pc' = "holes"
    /\ UNCHANGED << call, error, post_height, flat_height,
                    sign_vertical_spacing, manifold, bearings, piece, i,
                    post_mesh, add_meshes, last_diff, failures, built,
                    exported, slot_id, plate_id, sign_center, key_bearing,
                    pins_direct, holes_direct, slot_key, plate_key,
                    sign_bearing, arrowed, sign_length, point_left, sign_mesh,
                    debug, log, union_log, union_failures, text_len, max_sign_length, distance,
                    font_size, distance_font_size, layout_length, label_width >>

\* The keying holes are cut into the back of the blank, inside one try:
\* an exception of the hole generator or of the difference, and an empty
\* difference, leave sign_base as it was.
CutIndexHoles ==
    /\ UNCHANGED << debug, log, union_log, union_failures >>
    /\ UNCHANGED << text_len, distance, font_size, distance_font_size, layout_length,
                    label_width, max_sign_length >>
    /\ call = "generate_sign"
    /\ pc = "holes"
    /\ plate_key' = PlateHoles(plate_id, sign_length, PlateHeight(flat_height),
                               point_left)
    /\ IF plate_key'.raised # "none"
       THEN UNCHANGED << sign_base, last_diff, failures >>
       ELSE \E outcome \in DiffOutcomes :
              /\ last_diff' = outcome
              /\ failures' = failures + Failed(outcome)
              /\ sign_base' =
                    AfterDifference(sign_base,
                        [sign_base EXCEPT !.holes = plate_key'.mesh], outcome)
    /\ pc' = "text"
    /\ UNCHANGED << call, error, post_height, flat_height,
                    sign_vertical_spacing, manifold, bearings, piece, i,
                    post_mesh, add_meshes, built, exported, slot_id,
                    plate_id, sign_center, key_bearing, pins_direct,
                    holes_direct, slot_key, sign_bearing, arrowed,
                    sign_length, point_left, sign_mesh >>

\* Mutant: the label of a plate pointing left starts where that of a plate
\* pointing right does.
TextXNotMirrored(left, length, pad, width) == pad

\* text_x: the label starts attach_pad after the square end at x = 0, or,
\* on a plate pointing left, ends attach_pad before the square end at
\* x = sign_length.
text_x(left, length, pad, width) ==
    IF left THEN length - pad - width ELSE pad

\* distance_x: the distance block ends tip_padding before the point, or,
\* on a plate pointing left, starts tip_padding after it.
distance_x(left, length, width) ==
    IF left
    THEN point_length + tip_padding
    ELSE (length - point_length) - tip_padding - width

\* The text meshes: where each starts, the width the layout gives it and
\* its font.
value_width == distance_value * TimesDistanceFactor(distance_font_size)
units_width ==
    distance_units * TimesDistanceFactor(units_font_size(distance_font_size))

text_mesh ==
    [kind |-> "text",
     x |-> text_x(point_left, layout_length, attach_pad(point_left), label_width),
     width |-> label_width, font |-> font_size]

distance_meshes ==
    LET dx == distance_x(point_left, layout_length,
                         distance_width(distance_font_size))
    IN  (IF distance_value > 0
         THEN << [kind |-> "distance", x |-> dx, width |-> value_width,
                  font |-> distance_font_size] >>
         ELSE << >>)
        \o (IF distance_value > 0 /\ distance_units > 0
            THEN << [kind |-> "units",
                     x |-> dx + ((value_width - units_width) \div 2),
                     width |-> units_width,
                     font |-> units_font_size(distance_font_size)] >>
            ELSE << >>)

\* What the text rendering does: freetype is missing, a text mesh cannot
\* be made (no font, no geometry), or the text meshes are made.
TextOutcomes == { "no_freetype", "text_raises", "text_ok" }

\* The text is embossed: the plate and the text meshes are unioned; without
\* freetype, or on any exception (of the text or of the union), the plate
\* stays blank.
EmbossText ==
    /\ UNCHANGED << text_len, distance, font_size, distance_font_size, layout_length,
                    label_width, max_sign_length >>
    /\ call = "generate_sign"
    /\ pc = "text"
    /\ \E text \in TextOutcomes, outcome \in UnionOutcomes :
          LET c == UnionCall(<< sign_base, text_mesh >> \o distance_meshes,
                             outcome)
          IN  IF text = "text_ok"
              THEN /\ AfterUnion(c)
                   /\ sign_mesh' = IF c.result.raised = "none"
                                   THEN << c.result.mesh >>
                                   ELSE << sign_base >>
              ELSE /\ outcome = "first"
                   /\ sign_mesh' = << sign_base >>
                   /\ UNCHANGED << log, union_log, union_failures >>
    /\ pc' = "export"
    /\ UNCHANGED << call, error, failures, debug, post_height, flat_height,
                    sign_vertical_spacing, manifold, bearings, piece, i,
                    post_mesh, add_meshes, last_diff, built, exported,
                    slot_id, plate_id, sign_center, key_bearing, pins_direct,
                    holes_direct, slot_key, plate_key, sign_bearing, arrowed,
                    sign_length, point_left, sign_base >>

\* The sign is exported and generate_sign returns.
ExportSign ==
    /\ UNCHANGED << debug, log, union_log, union_failures >>
    /\ UNCHANGED << text_len, distance, font_size, distance_font_size, layout_length,
                    label_width, max_sign_length >>
    /\ call = "generate_sign"
    /\ pc = "export"
    /\ exported' = Append(exported, [file |-> "sign", mesh |-> sign_mesh[1]])
    /\ pc' = "done"
    /\ UNCHANGED << call, error, post_height, flat_height,
                    sign_vertical_spacing, manifold, bearings, piece, i,
                    post_mesh, add_meshes, last_diff, failures, built,
                    slot_id, plate_id, sign_center, key_bearing, pins_direct,
                    holes_direct, slot_key, plate_key, sign_bearing, arrowed,
                    sign_length, point_left, sign_base, sign_mesh >>

NextSign ==
    \/ StartLayout
    \/ FitStep
    \/ EndFit
    \/ CommitLayout
    \/ BuildBlank
    \/ CutIndexHoles
    \/ EmbossText
    \/ ExportSign

SpecSign == InitSign /\ [][NextSign]_vars

\* generate_sign for every label length, run to its end: the call is one
\* sequential computation, so a step that can be taken is taken.
InitFit ==
    /\ debug \in BOOLEAN
    /\ log = NoLog
    /\ union_log = << >>
    /\ union_failures = 0
    /\ call = "generate_sign"
    /\ pc = "start"
    /\ error = "none"
    /\ \E cfg \in SignConfigs : Construct(cfg)
    /\ manifold = TRUE
    /\ IdlePost
    /\ last_diff = "none"
    /\ failures = 0
    /\ exported = << >>
    /\ IdleKey
    /\ plate_id = None
    /\ sign_bearing \in SignBearings
    /\ arrowed \in BOOLEAN
    /\ text_len \in 1..MaxLabelLen
    /\ label_width = 0
    /\ max_sign_length \in MaxSignLengths
    /\ distance \in DistanceTexts
    /\ font_size = 0
    /\ distance_font_size = 0
    /\ layout_length = 0
    /\ sign_length = 0
    /\ point_left = FALSE
    /\ sign_base = [blank |-> "none", length |-> 0, left |-> FALSE, holes |-> {},
                    vertices |-> << >>, faces |-> << >>]
    /\ sign_mesh = << >>

SpecFit == InitFit /\ [][NextSign]_vars /\ WF_vars(NextSign)

\* Both entry points, for the properties that speak of both.
SpecGen == (InitPost \/ InitSign) /\ [][NextPost \/ NextSign]_vars

-----------------------------------------------------------------------------
(* Properties.                                                             *)

\* Offsets of a set of pins from the slot's centre line, and of a set of
\* holes from the plate's centre line.
PinOffsetsOf(pins, center) == { p.z - center : p \in pins }
HoleOffsetsOf(holes, sign_height) == { h.y - (sign_height \div 2) : h \in holes }

\* The binary expansion of n in 0..15, as a function from bit index to 0 or 1.
Bits(n) ==
    CHOOSE b \in [0..3 -> {0, 1}] : n = b[0] + (2 * b[1]) + (4 * b[2]) + (8 * b[3])

\* Position i of the keying row: (i - 1.5) * id_pin_spacing from the centre.
OffsetAt(k) == ((2 * k - 3) * id_pin_spacing) \div 2

CodeOffsets(n) == { OffsetAt(k) : k \in { c \in 0..3 : Bits(n)[c] = 1 } }

\* C1: for every segment_id in 1..15 the pins built for a slot and the holes
\* built for a plate of the same id sit at the same offsets from the centre
\* line, and position k carries a pin, and a hole, iff bit k of the id is set.
C1_PinsMatchHoles ==
    ( /\ call = "keying"
      /\ pins_direct.called
      /\ holes_direct.called
      /\ slot_id = plate_id
      /\ Val(slot_id) \in 1..15 )
    => /\ pins_direct.raised = "none"
       /\ holes_direct.raised = "none"
       /\ PinOffsetsOf(pins_direct.mesh, sign_center)
            = HoleOffsetsOf(holes_direct.mesh, PlateHeight(flat_height))
       /\ PinOffsetsOf(pins_direct.mesh, sign_center) = CodeOffsets(Val(slot_id))
       /\ Cardinality(pins_direct.mesh) = Cardinality(CodeOffsets(Val(slot_id)))
       /\ Cardinality(holes_direct.mesh) = Cardinality(CodeOffsets(Val(slot_id)))

C1_Witness ==
    /\ call = "keying"
    /\ pins_direct.called
    /\ holes_direct.called
    /\ slot_id = Some(10)
    /\ plate_id = Some(10)
    /\ PinOffsetsOf(pins_direct.mesh, sign_center) = { OffsetAt(1), OffsetAt(3) }

\* How far a pin stands out of its flat.
Protrusion(p) == p.radial + (p.len \div 2) - (post_radius - flat_depth)

\* A pin enters a hole when, with the two centre lines aligned, the pin's
\* cross-section lies inside the hole's and the hole is deep enough.
Enters(p, h, center, sign_height) ==
    LET d == (p.z - center) - (h.y - (sign_height \div 2))
    IN  /\ (IF d >= 0 THEN d ELSE 0 - d) + p.r <= h.r
        /\ Protrusion(p) <= h.depth

\* A plate seats on a slot when every pin of the slot enters a hole of it.
Seats(pins, holes, center, sign_height) ==
    \A p \in pins : \E h \in holes : Enters(p, h, center, sign_height)

BothKeyed ==
    /\ call = "keying"
    /\ slot_key.called
    /\ plate_key.called
    /\ slot_key.raised = "none"
    /\ plate_key.raised = "none"

KeySeats ==
    Seats(slot_key.mesh, plate_key.mesh, sign_center, PlateHeight(flat_height))

Fallback(id) == id = None \/ Val(id) > 15

C4_InvalidIdRaises ==
    /\ ( /\ call = "keying"
          /\ pins_direct.called
          /\ Val(slot_id) \notin 1..15 )
       => (pins_direct.raised = "ValueError" /\ pins_direct.mesh = {})
    /\ ( /\ call = "keying"
          /\ holes_direct.called
          /\ Val(plate_id) \notin 1..15 )
       => (holes_direct.raised = "ValueError" /\ holes_direct.mesh = {})

C4_Witness ==
    /\ call = "keying"
    /\ pins_direct.called
    /\ holes_direct.called
    /\ slot_id = Some(0)
    /\ plate_id = Some(16)
    /\ pins_direct.raised = "ValueError"
    /\ holes_direct.raised = "ValueError"

\* The solids collected in add_meshes, and those that key a slot.
AllAdded == UNION { add_meshes[k] : k \in 1..Len(add_meshes) }
KeyPins == { p \in AllAdded : p.kind \in { "id", "index" } }

\* An entry build_post passes over: its spacer flag is set or it has no bearing.
Skipped(e) == (e.isdict /\ e.spacer) \/ e.bearing = None

\* The segment id build_post reads for the k-th entry of the piece.
SegmentIdAt(k) ==
    IF PieceEntries[k].isdict
    THEN PieceEntries[k].segment_id
    ELSE Some(base_index + k)

\* Centre of the slot k0 places below the topmost one, in a piece of height h.
CentreBelowTop(h, k0) ==
    h - (sign_vertical_spacing \div 2) - (flat_height \div 2)
      - k0 * (flat_height + sign_vertical_spacing)

Dist(a, b) == IF a >= b THEN a - b ELSE b - a

\* The keying pins build_post has added around the k-th slot of the piece.
PinsAtSlot(k) ==
    { p \in KeyPins :
        Dist(p.z, CentreBelowTop(PieceHeight, k - 1)) <= flat_height \div 2 }

Building == call = "generate_post" /\ piece # "none"

\* C3: for an absent segment_id and for one above 15, generate_post gives
\* the slot exactly one centred index pin and generate_sign builds exactly
\* one centred index hole, the only hole the plate gets; no binary pin or
\* hole is built.
C3_FallbackIsOneCentredPin ==
    /\ Building =>
         \A k \in 1..i :
            (~Skipped(PieceEntries[k]) /\ Fallback(SegmentIdAt(k)))
            => /\ Cardinality(PinsAtSlot(k)) = 1
               /\ \A p \in PinsAtSlot(k) :
                     /\ p.kind = "index"
                     /\ p.z = CentreBelowTop(PieceHeight, k - 1)
                     /\ p.r = index_pin_radius
    /\ (call = "generate_sign" /\ plate_key.called /\ Fallback(plate_id))
       => /\ plate_key.raised = "none"
          /\ Cardinality(plate_key.mesh) = 1
          /\ \A h \in plate_key.mesh :
                /\ h.kind = "index"
                /\ h.y - (PlateHeight(flat_height) \div 2) = 0
                /\ h.r = index_pin_radius + index_pin_clearance
          /\ sign_base.holes \subseteq plate_key.mesh
          /\ (last_diff = "ok" => sign_base.holes = plate_key.mesh)

C3_Witness ==
    /\ Building
    /\ pc = "union"
    /\ \E k \in 1..i :
          /\ PieceEntries[k].segment_id = Some(16)
          /\ Cardinality(PinsAtSlot(k)) = 1

\* C5: generate_sign called with segment_id <= 0 ends with the validation
\* error and exports no sign file.
C5_NonPositiveIdEndsInError ==
    (call = "generate_sign" /\ plate_id # None /\ Val(plate_id) <= 0)
    => /\ exported = << >>
       /\ (pc = "done" => error = "ValueError")

\* The flats carved into the body of the j-th piece build_post returned.
FlatsOfBuilt(j) == built[j].mesh.parts[1].flats

\* C6: the capacity of a piece is
\* max(1, floor((pieceHeight - verticalSpacing - flatHeight) / pitch) + 1);
\* it is 5 for 180 / 28 / 8, and a 7-slot input is then split into an upper
\* piece with the first 5 slots and a lower piece with the remaining 2.
C6_CapacityAndSplit ==
    call = "generate_post"
    => /\ upper_capacity =
            Max(1, ((post_height - sign_vertical_spacing - flat_height)
                      \div (flat_height + sign_vertical_spacing)) + 1)
       /\ (post_height = 18000 /\ flat_height = 2800 /\ sign_vertical_spacing = 800)
          => /\ upper_capacity = 5
             /\ Len(bearings) = 7
                => /\ upper_entries = SubSeq(bearings, 1, 5)
                   /\ lower_entries = SubSeq(bearings, 6, 7)
                   /\ (pc = "union" /\ piece = "upper") => i = 5
                   /\ (pc = "union" /\ piece = "lower") => i = 2
                   /\ (pc = "done" /\ failures = 0)
                      => /\ built[1].piece = "lower"
                         /\ built[2].piece = "upper"
                         /\ Cardinality(FlatsOfBuilt(1)) = 2
                         /\ Cardinality(FlatsOfBuilt(2)) = 5

C6_Witness ==
    /\ call = "generate_post"
    /\ pc = "done"
    /\ post_height = 18000
    /\ flat_height = 2800
    /\ sign_vertical_spacing = 800
    /\ Len(bearings) = 7
    /\ Cardinality(FlatsOfBuilt(1)) = 2
    /\ Cardinality(FlatsOfBuilt(2)) = 5

\* C7: no piece built by generate_post is given more slots than the
\* capacity of a piece of its height.
C7_NoPieceOverCapacity ==
    Building => Len(PieceEntries) <= max_slots_per_post(PieceHeight)

\* C8: in each piece the k-th assigned slot (k = 0 for the topmost) has its
\* centre at pieceHeight - verticalSpacing/2 - flatHeight/2 - k * pitch:
\* every flat is carved there and every slot's pins are set around it;
\* centres decrease in list order, one pitch apart.
C8_SlotCentres ==
    Building
    => /\ \A f \in post_mesh.flats :
             \E k \in 1..Len(PieceEntries) :
                /\ ~Skipped(PieceEntries[k])
                /\ f.z = CentreBelowTop(PieceHeight, k - 1)
                /\ f.bearing = (Val(PieceEntries[k].bearing) + 90) % 360
       /\ (pc = "pins" /\ last_diff = "ok")
          => \E f \in post_mesh.flats : f.z = CentreBelowTop(PieceHeight, i)
       /\ \A k \in 1..i :
             ~Skipped(PieceEntries[k])
             => /\ PinsAtSlot(k) # {}
                /\ \A p \in PinsAtSlot(k) :
                      /\ p.bearing = (Val(PieceEntries[k].bearing) + 90) % 360
                      /\ \/ p.z = CentreBelowTop(PieceHeight, k - 1)
                         \/ \E b \in 0..3 :
                               p.z = CentreBelowTop(PieceHeight, k - 1) + OffsetAt(b)
       /\ \A p \in KeyPins : \E k \in 1..i : p \in PinsAtSlot(k)
       /\ LET c == slot_centers(PieceHeight, Len(PieceEntries))
          IN  \A k \in 1..(Len(c) - 1) :
                 /\ c[k] > c[k + 1]
                 /\ c[k] - c[k + 1] = flat_height + sign_vertical_spacing

C8_Witness ==
    /\ Building
    /\ piece = "upper"
    /\ pc = "pins"
    /\ i = 2
    /\ last_diff = "ok"
    /\ post_height = 18000
    /\ \E f \in post_mesh.flats : f.z = 9000

\* C9: a spacer slot (spacer flag set, or no bearing) gets no flat and no
\* pin, yet takes one slot position: it counts toward the piece's capacity
\* and every later slot of the piece sits one pitch lower than it would in
\* the same piece without the spacer.
C9_SpacerTakesAPosition ==
    Building
    => /\ \A k \in 1..Len(PieceEntries) :
             Skipped(PieceEntries[k])
             => /\ \A f \in post_mesh.flats :
                      f.z # CentreBelowTop(PieceHeight, k - 1)
                /\ (k <= i => PinsAtSlot(k) = {})
                /\ \A q \in (k + 1)..Len(PieceEntries) :
                      LET without == slot_centers(PieceHeight, Len(PieceEntries) - 1)[q - 1]
                      IN  /\ (q <= i /\ ~Skipped(PieceEntries[q]))
                             => \E p \in KeyPins :
                                   Dist(p.z, without - segment_height) <= flat_height \div 2
                          /\ (q = i + 1 /\ pc = "pins" /\ last_diff = "ok")
                             => \E f \in post_mesh.flats : f.z = without - segment_height
       /\ (piece = "upper" /\ pc = "union")
          => /\ i = Len(upper_entries)
             /\ Cardinality({ k \in 1..i : Skipped(upper_entries[k]) })
                  + Cardinality({ k \in 1..i : PinsAtSlot(k) # {} }) = i
             /\ i <= upper_capacity
             /\ (Len(bearings) >= upper_capacity => i = upper_capacity)

C9_Witness ==
    /\ Building
    /\ piece = "upper"
    /\ pc = "pins"
    /\ i = 1
    /\ last_diff = "ok"
    /\ post_height = 18000
    /\ Skipped(PieceEntries[1])
    /\ \E f \in post_mesh.flats : f.z = 12600

\* C10: when the difference that carves a flat, cuts the join-pin holes or
\* cuts a plate's index holes raises or returns an empty mesh, the mesh
\* being carved stays as it was and the build goes on to its next step.
C10_FailedDifferenceKeepsMesh ==
    [][ (pc \in { "slot", "holes" } /\ failures' = failures + 1)
        => /\ last_diff' \in { "empty", "raise" }
           /\ post_mesh' = post_mesh
           /\ sign_base' = sign_base
           /\ error' = "none"
           /\ pc' = (CASE pc = "holes" -> "text"
                       [] pc = "slot" /\ i < Len(PieceEntries) -> "pins"
                       [] OTHER -> "union") ]_vars

C10_Witness ==
    /\ call = "generate_post"
    /\ pc = "done"
    /\ failures = 1
    /\ last_diff = "ok"
    /\ Len(bearings) = 3
    /\ error = "none"
    /\ Len(exported) = 2
    /\ Cardinality(FlatsOfBuilt(1)) + Cardinality(FlatsOfBuilt(2)) = 2

\* C11: a slot whose flat was not carved (the difference raised or came
\* back empty) receives no pins: neither id pins nor the centre index pin.
C11_NoPinsWithoutFlat ==
    Building
    => \A k \in 1..i :
          (/\ ~Skipped(PieceEntries[k])
           /\ \A f \in post_mesh.flats : f.z # CentreBelowTop(PieceHeight, k - 1))
          => PinsAtSlot(k) = {}

\* C12: without a boolean backend a union of a non-empty list returns the
\* plain concatenation of its inputs, and the no-engine warning is printed
\* at most once per generator.
C12_NoEngineConcatenates ==
    /\ ~manifold
       => \A k \in 1..Len(union_log) :
             /\ union_log[k].result.raised = "none"
             /\ union_log[k].result.mesh.parts = union_log[k].meshes
             /\ ~union_log[k].result.mesh.fused
    /\ log["no_engine"] <= 1

\* C13: without a boolean backend neither generate_post nor generate_sign
\* completes or exports a file.
C13_NoEngineHalts ==
    ~manifold => (pc # "done" /\ exported = << >>)

\* C14: with a backend, _union_meshes on a non-empty list always returns a
\* mesh holding all its inputs: fused by the first attempt; fused by the one
\* exact-mode retry made when the first attempt came back empty; otherwise
\* (retry empty too, or an attempt raised) the concatenation of the inputs.
C14_UnionAlwaysReturnsAMesh ==
    manifold
    => \A k \in 1..Len(union_log) :
          LET c == union_log[k]
          IN  /\ c.meshes # << >>
              /\ c.result.raised = "none"
              /\ c.result.mesh.parts # << >>
              /\ c.result.mesh.parts = c.meshes
              /\ Len(c.attempts) \in { 1, 2 }
              /\ ~c.attempts[1].use_exact
              /\ (Len(c.attempts) = 2)
                    <=> (c.outcome \in { "retry", "empty", "retry_raise" })
              /\ (Len(c.attempts) = 2) => c.attempts[2].use_exact
              /\ c.result.mesh.fused <=> (c.outcome \in { "first", "retry" })

C14_Witness ==
    /\ call = "generate_post"
    /\ pc = "done"
    /\ Len(union_log) = 3
    /\ union_log[1].outcome = "empty"
    /\ ~union_log[1].result.mesh.fused
    /\ union_log[2].outcome = "retry"
    /\ union_log[2].result.mesh.fused
    /\ Len(exported) = 2

\* C15: however many unions of one generator fall back to concatenation,
\* the fallback warning is printed once.
C15_FallbackWarnedOnce ==
    log["union_fallback"] <= 1

\* C16: every boolean union attempt of _union_meshes, the exact-mode retry
\* included, is handed the cleaned copies of the meshes.
C16_EveryAttemptCleaned ==
    \A k \in 1..Len(union_log) :
       \A a \in 1..Len(union_log[k].attempts) :
          union_log[k].attempts[a].cleaned

\* generate_sign has committed its layout.
Committed == call = "generate_sign" /\ pc \notin { "start", "fit", "commit" }

\* C17: every committed layout has its main font in
\* [min_font_size, max_font_size], its distance font in [5.0, max_font_size]
\* and a plate length of at least 60.
C17_CommittedLayoutInBounds ==
    Committed
    => /\ min_font_size <= font_size
       /\ font_size <= max_font_size
       /\ min_distance_font_size <= distance_font_size
       /\ distance_font_size <= max_font_size
       /\ layout_length >= min_sign_length

\* The fitting loop has ended with the main font at 12.0, the distance font
\* at 5.0 and the texts still longer than the body of the plate.
Overflowing ==
    /\ call = "generate_sign"
    /\ pc \notin { "start", "fit" }
    /\ font_size = min_main_font
    /\ distance_font_size = min_distance_font_size
    /\ required_body_length > body_length

C19_OneFontPerIteration ==
    [][ (pc = "fit" /\ pc' = "fit")
        => /\ StillFitting
           /\ \/ /\ font_size > min_main_font
                 /\ font_size' = Max(min_main_font, font_size - font_step)
                 /\ distance_font_size' = distance_font_size
              \/ /\ font_size <= min_main_font
                 /\ font_size' = font_size
                 /\ distance_font_size' =
                       Max(min_distance_font_size, distance_font_size - font_step)
      ]_vars

\* C19 as the code has it: an iteration runs only while the texts do not
\* fit and a font is above its floor; it lowers the main font by 0.5 (not
\* below 12.0) while that is above 12.0 and otherwise the distance font by
\* 0.5 (not below 5.0), and then caps the distance font at 0.65 of the main
\* font, so that an iteration that lowers the main font may lower the
\* distance font with it; the loop is left as soon as the texts fit or both
\* fonts are at their floors.
C19_StepThenCap ==
    [][ /\ (pc = "fit" /\ pc' = "fit")
           => /\ StillFitting
              /\ IF font_size > min_main_font
                 THEN /\ font_size' = Max(min_main_font, font_size - font_step)
                      /\ distance_font_size' =
                            Min(distance_font_size, TimesNameFactor(font_size'))
                 ELSE /\ font_size' = font_size
                      /\ distance_font_size' =
                            Min(Max(min_distance_font_size,
                                    distance_font_size - font_step),
                                TimesNameFactor(font_size'))
              /\ (font_size' < font_size \/ distance_font_size' < distance_font_size)
              /\ distance_font_size' <= TimesNameFactor(font_size')
        /\ (pc = "fit" /\ pc' # "fit")
           => \/ required_body_length <= body_length
              \/ /\ font_size <= min_main_font
                 /\ distance_font_size <= min_distance_font_size
      ]_vars

C19_Witness ==
    /\ call = "generate_sign"
    /\ pc = "fit"
    /\ font_size > min_main_font
    /\ font_size < InitialFontSize
    /\ distance_font_size < InitialDistanceFontSize
    /\ distance_font_size = TimesNameFactor(font_size)

\* C20: generate_sign takes the point-left geometry exactly when the plate
\* is arrowed and its bearing is above 180: 200 points left, 90 and 180
\* point right, and a plate without arrow never points left.
C20_PointLeftIffArrowedAbove180 ==
    (call = "generate_sign" /\ pc # "start")
    => /\ point_left <=> (arrowed /\ sign_bearing > 180)
       /\ (arrowed /\ sign_bearing = 200) => point_left
       /\ sign_bearing = 90 => ~point_left
       /\ sign_bearing = 180 => ~point_left
       /\ ~arrowed => ~point_left
       /\ pc \notin { "fit", "commit", "blank" }
          => /\ sign_base.left = point_left
             /\ sign_base.blank = (IF arrowed THEN "dart" ELSE "box")

C20_Witness ==
    /\ call = "generate_sign"
    /\ pc = "done"
    /\ arrowed
    /\ sign_bearing = 200
    /\ point_left
    /\ sign_base.left
    /\ sign_base.blank = "dart"
    /\ Len(exported) = 1

\* The XY positions of a set of join pins or join holes, the two offsets
\* the claim names, and a set of positions turned by 180 degrees about the
\* post axis.
XYOf(solids) == { << q.x, q.y >> : q \in solids }
NamedJoinOffsets ==
    { << (45 * post_radius) \div 100, 0 >>,
      << 0 - ((28 * post_radius) \div 100), 0 - ((27 * post_radius) \div 100) >> }
HalfTurn(points) == { << 0 - q[1], 0 - q[2] >> : q \in points }
JoinPinsAdded == { q \in AllAdded : q.kind = "join_pin" }

\* C21: the join pins of the lower piece and the join holes of the upper
\* piece sit at the same two XY offsets, (0.45 r, 0) and (-0.28 r, -0.27 r),
\* whatever the piece and its height, and a half turn about the post axis
\* does not map this pair onto itself.
C21_JoinOffsetsFixedAndAsymmetric ==
    Building
    => /\ JoinPinsAdded # {}
          => /\ piece = "lower"
             /\ XYOf(JoinPinsAdded) = NamedJoinOffsets
             /\ JoinPinsAdded = _create_post_join_pins(PieceHeight)
       /\ post_mesh.join_holes # {}
          => /\ piece = "upper"
             /\ XYOf(post_mesh.join_holes) = NamedJoinOffsets
       /\ XYOf(_create_post_join_pin_holes) = XYOf(_create_post_join_pins(PieceHeight))
       /\ Cardinality(NamedJoinOffsets) = 2
       /\ HalfTurn(XYOf(_create_post_join_pins(PieceHeight)))
            # XYOf(_create_post_join_pins(PieceHeight))

C21_Witness ==
    /\ call = "generate_post"
    /\ pc = "done"
    /\ post_height = 10000
    /\ XYOf(post_mesh.join_holes) = { << 450, 0 >>, << -280, -270 >> }
    /\ XYOf(built[1].mesh.parts[Len(built[1].mesh.parts)])
         = { << 450, 0 >>, << -280, -270 >> }

\* The blank of an arrowed plate has been built.
DartBuilt ==
    /\ call = "generate_sign"
    /\ pc \in { "holes", "text", "export", "done" }
    /\ arrowed

Range(seq) == { seq[k] : k \in 1..Len(seq) }

\* C22 as stated: the dart blank of an arrowed plate has exactly 10
\* vertices and exactly 18 triangles, pointing right or left.
C22_TenVerticesEighteenTriangles ==
    DartBuilt
    => /\ Len(sign_base.vertices) = 10
       /\ Len(sign_base.faces) = 18

\* C22 amended: the dart blank of an arrowed plate has exactly 10 vertices,
\* all different, and exactly 16 triangles, all different, each on three
\* of these vertices, pointing right or left.
C22_TenVerticesSixteenTriangles ==
    DartBuilt
    => /\ Len(sign_base.vertices) = 10
       /\ Cardinality(Range(sign_base.vertices)) = 10
       /\ Len(sign_base.faces) = 16
       /\ Cardinality(Range(sign_base.faces)) = 16
       /\ \A k \in 1..Len(sign_base.faces) :
             /\ Range(sign_base.faces[k]) \subseteq 0..9
             /\ Cardinality(Range(sign_base.faces[k])) = 3

C22_Witness ==
    /\ DartBuilt
    /\ point_left
    /\ sign_base.left
    /\ Len(sign_base.vertices) = 10
    /\ Len(sign_base.faces) = 16
    /\ sign_base.vertices[9][1] = 0

\* How often the directed edge a -> b occurs in a triangle list.
EdgeCount(fs, a, b) ==
    Cardinality({ kj \in (1..Len(fs)) \X (1..3) :
                    /\ fs[kj[1]][kj[2]] = a
                    /\ fs[kj[1]][(kj[2] % 3) + 1] = b })

\* A closed, consistently oriented surface: every directed edge of every
\* triangle occurs once, and its reverse occurs once.
ClosedAndOriented(fs) ==
    \A k \in 1..Len(fs), j \in 1..3 :
        LET a == fs[k][j]
            b == fs[k][(j % 3) + 1]
        IN  /\ a # b
            /\ EdgeCount(fs, a, b) = 1
            /\ EdgeCount(fs, b, a) = 1

\* C28: the triangles of the dart blank form a closed, consistently
\* oriented surface (each directed edge occurs exactly once, its reverse
\* exactly once, in another triangle), and the blank of a plate pointing
\* left, with x replaced by sign_length - x and every triangle reversed,
\* is closed and consistently oriented as well.
C28_DartIsClosedAndOriented ==
    DartBuilt
    => /\ pc = "holes" => ClosedAndOriented(sign_base.faces)
       /\ sign_base.faces = faces(point_left)
       /\ sign_base.left = point_left
       /\ sign_base.left
          => \A k \in 1..Len(sign_base.faces) :
                /\ sign_base.faces[k]
                     = << right_faces[k][3], right_faces[k][2], right_faces[k][1] >>
       /\ sign_base.left
          => \A k \in 1..Len(sign_base.vertices) :
                /\ sign_base.vertices[k][1]
                     = layout_length - right_vertices(layout_length)[k][1]
                /\ sign_base.vertices[k][2] = right_vertices(layout_length)[k][2]
                /\ sign_base.vertices[k][3] = right_vertices(layout_length)[k][3]

C28_Witness ==
    /\ DartBuilt
    /\ sign_base.left
    /\ sign_base.faces[15] = << 9, 6, 5 >>
    /\ EdgeCount(sign_base.faces, 9, 6) = 1
    /\ EdgeCount(sign_base.faces, 6, 9) = 1

\* The text meshes generate_sign placed: those it handed to _union_meshes.
TextPlaced ==
    /\ call = "generate_sign"
    /\ pc \in { "export", "done" }
    /\ union_log # << >>
Placed == union_log[Len(union_log)].meshes

\* An X interval << from, to >> and its mirror image about the midline
\* x = length / 2.
Interval(from, width) == << from, from + width >>
Mirror(interval, length) == << length - interval[2], length - interval[1] >>
MirrorPoint(v, length) == << length - v[1], v[2], v[3] >>

\* C23: on a plate pointing left the X interval of the label, the X
\* interval of the distance block, the outline and the keying holes are
\* the mirror images about x = sign_length / 2 of what the layout of a
\* plate pointing right places for the same length, widths and paddings;
\* the attach padding lies between the label and the square end and the
\* tip padding between the distance block and the point.
C23_PointLeftMirrorsPointRight ==
    (TextPlaced /\ point_left)
    => LET L == layout_length
           pad == attach_pad(point_left)
           dw == distance_width(distance_font_size)
       IN  /\ Interval(Placed[2].x, label_width)
                = Mirror(Interval(text_x(FALSE, L, pad, label_width),
                                  label_width), L)
           /\ L - (Placed[2].x + label_width) = left_attach_padding
           /\ Len(Placed) >= 3
              => /\ Interval(Placed[3].x, dw)
                      = Mirror(Interval(distance_x(FALSE, L, dw), dw), L)
                 /\ Placed[3].x - point_length = tip_padding
           /\ Range(Placed[1].vertices)
                = { MirrorPoint(v, L) : v \in Range(vertices(L, FALSE)) }
           /\ plate_key.raised = "none"
              => /\ plate_key.mesh
                      = PlateHoles(plate_id, sign_length,
                                   PlateHeight(flat_height), FALSE).mesh
                 /\ \A h \in plate_key.mesh : h.x = sign_length \div 2

\* A plate pointing left with a label and a distance block placed.
C23_Witness ==
    /\ TextPlaced
    /\ point_left
    /\ Len(Placed) = 4
    /\ Placed[2].x + label_width + left_attach_padding = layout_length
    /\ Placed[3].x = point_length + tip_padding
    /\ sign_base.holes # {}

\* The required body length of the finished layout (the widths of the
\* final calculations), and the step that commits the layout.
FinalRequired ==
    attach_pad(point_left) + label_width + effective_gap
      + distance_width(distance_font_size) + tip_padding
Commits == call = "generate_sign" /\ pc = "commit" /\ pc' = "blank"

\* What C24 says of the committed length, given the highest length it
\* allows: if the final required body length is at most the available
\* body length (that of the plate as laid out, floored at 60, and that of
\* the longest plate), the length is max(60, required + point length), so
\* longer than the text needs only when it is 60, and at most the highest.
ShrunkToFit(highest) ==
    LET available == Max(min_sign_length, layout_length) - point_length
        longest == max_sign_length - point_length
    IN  (FinalRequired' <= available \/ FinalRequired' <= longest)
        => /\ layout_length' = Max(min_sign_length, FinalRequired' + point_length)
           /\ layout_length' > FinalRequired' + point_length
                => layout_length' = min_sign_length
           /\ layout_length' <= highest
           /\ sign_length' = layout_length' \div Micro

C25_FittingLoopTerminates ==
    /\ [][(call = "generate_sign" /\ pc = "fit" /\ pc' = "fit")
            => /\ StillFitting
               /\ font_size' <= font_size
               /\ distance_font_size' <= distance_font_size
               /\ (font_size' < font_size
                     \/ distance_font_size' < distance_font_size)]_vars
    /\ [][(call = "generate_sign" /\ pc = "fit" /\ pc' # "fit")
            => /\ ~StillFitting
               /\ pc' = "commit"
               /\ font_size' = font_size
               /\ distance_font_size' = distance_font_size]_vars
    /\ (call = "generate_sign" /\ pc = "fit") ~> (pc = "commit")

\* A layout that left the loop with both fonts lowered to their floors.
C25_Witness ==
    /\ call = "generate_sign"
    /\ pc = "commit"
    /\ InitialFontSize > min_main_font
    /\ InitialDistanceFontSize > min_distance_font_size
    /\ font_size = min_main_font
    /\ distance_font_size = min_distance_font_size

\* C26: every input slot goes to exactly one piece and the input order is
\* kept: the upper piece's slots followed by the lower piece's are the input
\* list, the upper piece holds the first min(n, capacity) of them, and the
\* entry a piece is working on is the input slot at its position.
C26_SplitKeepsEverySlotInOrder ==
    call = "generate_post"
    => /\ upper_entries \o lower_entries = bearings
       /\ Len(upper_entries) = Min(Len(bearings), upper_capacity)
       /\ Len(upper_entries) + Len(lower_entries) = Len(bearings)
       /\ \A k \in 1..Len(upper_entries) : upper_entries[k] = bearings[k]
       /\ \A k \in 1..Len(lower_entries) :
             lower_entries[k] = bearings[Len(upper_entries) + k]
       /\ (pc \in { "slot", "pins" } /\ i < Len(PieceEntries))
             => /\ entry = bearings[base_index + i + 1]
                /\ piece = "upper" <=> base_index + i + 1 <= upper_capacity

\* Both pieces were given slots and both were built.
C26_Witness ==
    /\ call = "generate_post"
    /\ pc = "done"
    /\ Len(exported) = 2
    /\ Len(upper_entries) = upper_capacity
    /\ Len(lower_entries) >= 2
    /\ upper_entries \o lower_entries = bearings

\* C27: in every piece generate_post builds, the flat interval
\* [centre - flatHeight/2, centre + flatHeight/2] of every assigned slot,
\* and so every flat carved, lies inside the piece with at least half the
\* vertical spacing above it to the piece top and below it to the piece
\* bottom.
C27_FlatsInsidePieceWithHalfGaps ==
    Building
    => /\ \A k \in 1..Len(PieceEntries) :
             LET centre == slot_centers(PieceHeight, Len(PieceEntries))[k]
             IN  /\ centre + (flat_height \div 2) <= PieceHeight - sign_gap_half
                 /\ centre - (flat_height \div 2) >= sign_gap_half
       /\ \A f \in post_mesh.flats :
             /\ f.z + (f.height \div 2) <= PieceHeight - sign_gap_half
             /\ f.z - (f.height \div 2) >= sign_gap_half

\* The steps of build_post, told apart by where it stands before and after.
CarvesFlat == call = "generate_post" /\ pc = "slot" /\ pc' = "pins"
CutsJoinHoles ==
    call = "generate_post" /\ pc = "slot" /\ pc' = "union" /\ piece = "upper"
UnionsPiece ==
    call = "generate_post" /\ pc = "union" /\ pc' # "union"
PieceNumber == IF piece = "lower" THEN 1 ELSE 2

\* C29: within one piece every flat is carved before the join holes are
\* cut, and the join holes are cut before the one union of the body with
\* the collected pins, after which the body is not cut again; the lower
\* piece gets join pins and no join holes, the upper piece join holes and
\* no join pins; the lower piece is exported before the upper piece.
C29_OrderOfBuildSteps ==
    /\ [][CarvesFlat
            => /\ post_mesh.join_holes = {}
               /\ JoinPinsAdded = {}
               /\ Len(built) = PieceNumber - 1]_vars
    /\ [][CutsJoinHoles
            => /\ i = Len(PieceEntries)
               /\ post_mesh'.flats = post_mesh.flats
               /\ Len(built) = 1]_vars
    /\ [][UnionsPiece
            => /\ Len(built) = PieceNumber - 1
               /\ Len(built') <= PieceNumber
               /\ Len(union_log') <= Len(union_log) + 1
               /\ post_mesh' = post_mesh
               /\ (piece = "upper" /\ Len(built') = 2)
                    => built'[2].mesh.parts[1] = post_mesh]_vars
    /\ [](Building
            => /\ (piece = "lower" => post_mesh.join_holes = {})
               /\ (piece = "upper" => JoinPinsAdded = {})
               /\ (pc = "lower_union"
                     => JoinPinsAdded = _create_post_join_pins(lower_height))
               /\ (piece = "upper" => /\ Len(exported) >= 1
                                     /\ exported[1].file = "post_lower")
               /\ (piece = "lower" => exported = << >>)
               /\ (Len(exported) = 2 => exported[2].file = "post_upper"))

\* Both pieces carved, the holes cut, both exported.
C29_Witness ==
    /\ call = "generate_post"
    /\ pc = "done"
    /\ Len(exported) = 2
    /\ post_mesh.flats # {}
    /\ post_mesh.join_holes # {}
    /\ FlatsOfBuilt(1) # {}
    /\ built[1].mesh.parts[Len(built[1].mesh.parts)]
         = _create_post_join_pins(lower_height)

\* C30: when generate_post ends with the validation error of a slot whose
\* segment_id is <= 0, the call has exported no post-piece file, whichever
\* piece the slot was in.
C30_NoExportBeforeValidationError ==
    (call = "generate_post" /\ pc = "raised" /\ error = "ValueError")
    => exported = << >>

=============================================================================
